---- MODULE Spec2Model ----
(***************************************************************************)
(* mqtt-delta: the message handler of src/main.ts and the functions it     *)
(* calls (getValueByPath, shouldIgnorePath, detectChanges), over JavaScript *)
(* values as JSON.parse produces them.                                      *)
(*                                                                         *)
(* A string is a sequence of one-character strings, so that split('.'),    *)
(* startsWith and template concatenation are computed on characters.       *)
(* A number is held in tenths (22.5 is 225, 45 is 450); only non-negative  *)
(* numbers with at most one decimal are modelled.                          *)
(* An object is the sequence of its own properties in property order.      *)
(* Properties inherited from a prototype (constructor, toString, ...) are   *)
(* not modelled: no key of the model spells one.                           *)
(***************************************************************************)
EXTENDS Integers, Sequences, FiniteSets, TLC

VARIABLES
  config,           \* the configuration object of main.ts:14-33
  previousMessage,  \* main.ts:89
  logged,           \* the lines logger.info wrote at main.ts:229, oldest first
  delivered,        \* history: every payload the 'message' event delivered
  input,            \* the arguments of a direct call of one function
  output            \* what that call returned

vars == <<config, previousMessage, logged, delivered, input, output>>

----------------------------------------------------------------------------
(* JavaScript values *)

Null == [t |-> "null"]
Undefined == [t |-> "undefined"]
Bool(b) == [t |-> "bool", b |-> b]
Num(n) == [t |-> "num", n |-> n]
Str(s) == [t |-> "str", s |-> s]
Arr(e) == [t |-> "arr", e |-> e]
Obj(p) == [t |-> "obj", p |-> p]

Prop(k, v) == [k |-> k, v |-> v]
Obj1(k, v) == Obj(<<Prop(k, v)>>)
Obj2(k1, v1, k2, v2) == Obj(<<Prop(k1, v1), Prop(k2, v2)>>)

\* !v
Falsy(v) ==
  \/ v.t \in {"null", "undefined"}
  \/ v.t = "bool" /\ ~v.b
  \/ v.t = "num" /\ v.n = 0
  \/ v.t = "str" /\ v.s = <<>>

\* typeof v === 'object' && v !== null
IsObject(v) == v.t \in {"obj", "arr"}

DigitChars == <<"0", "1", "2", "3", "4", "5", "6", "7", "8", "9">>

RECURSIVE Digits(_)
\* the decimal digits of a natural number
Digits(n) ==
  IF n < 10 THEN <<DigitChars[n + 1]>>
  ELSE Digits(n \div 10) \o <<DigitChars[(n % 10) + 1]>>

\* Number.prototype.toString of a number held in tenths
NumText(n) ==
  IF n % 10 = 0 THEN Digits(n \div 10)
  ELSE Digits(n \div 10) \o <<".">> \o <<DigitChars[(n % 10) + 1]>>

LengthKey == <<"l", "e", "n", "g", "t", "h">>

\* the keys a for-in loop, or Object.keys, visits: own enumerable properties
OwnKeys(v) ==
  CASE v.t = "obj" -> [i \in 1..Len(v.p) |-> v.p[i].k]
    [] v.t = "arr" -> [i \in 1..Len(v.e) |-> Digits(i - 1)]
    [] v.t = "str" -> [i \in 1..Len(v.s) |-> Digits(i - 1)]
    [] OTHER -> <<>>

\* v[key], for v neither null nor undefined
Get(v, key) ==
  CASE v.t = "obj" ->
         IF \E i \in 1..Len(v.p) : v.p[i].k = key
         THEN v.p[CHOOSE i \in 1..Len(v.p) : v.p[i].k = key].v
         ELSE Undefined
    [] v.t = "arr" ->
         IF \E i \in 1..Len(v.e) : Digits(i - 1) = key
         THEN v.e[CHOOSE i \in 1..Len(v.e) : Digits(i - 1) = key]
         ELSE IF key = LengthKey THEN Num(10 * Len(v.e)) ELSE Undefined
    [] v.t = "str" ->
         IF \E i \in 1..Len(v.s) : Digits(i - 1) = key
         THEN Str(<<v.s[CHOOSE i \in 1..Len(v.s) : Digits(i - 1) = key]>>)
         ELSE IF key = LengthKey THEN Num(10 * Len(v.s)) ELSE Undefined
    [] OTHER -> Undefined

\* a === b: primitives by type and value; an object only with itself, and no
\* two values the model compares are the same object
StrictEquals(a, b) == ~IsObject(a) /\ ~IsObject(b) /\ a = b

RECURSIVE Encode(_)
RECURSIVE EncodeProps(_, _)
RECURSIVE EncodeItems(_, _)
\* the text JSON.stringify returns for a value other than undefined
Encode(v) ==
  CASE v.t = "null" -> <<"n", "u", "l", "l">>
    [] v.t = "bool" -> IF v.b THEN <<"t", "r", "u", "e">>
                       ELSE <<"f", "a", "l", "s", "e">>
    [] v.t = "num" -> NumText(v.n)
    [] v.t = "str" -> <<"\"">> \o v.s \o <<"\"">>
    [] v.t = "arr" -> <<"[">> \o EncodeItems(v.e, 1) \o <<"]">>
    [] v.t = "obj" -> <<"{">> \o EncodeProps(v.p, 1) \o <<"}">>

EncodeProps(p, i) ==
  IF i > Len(p) THEN <<>>
  ELSE (IF i > 1 THEN <<",">> ELSE <<>>)
       \o <<"\"">> \o p[i].k \o <<"\"", ":">> \o Encode(p[i].v)
       \o EncodeProps(p, i + 1)

EncodeItems(e, i) ==
  IF i > Len(e) THEN <<>>
  ELSE (IF i > 1 THEN <<",">> ELSE <<>>) \o Encode(e[i]) \o EncodeItems(e, i + 1)

\* JSON.stringify(v): undefined for undefined, else a string
JSONstringify(v) == IF v = Undefined THEN Undefined ELSE Str(Encode(v))

----------------------------------------------------------------------------
(* main.ts:95-109 *)

RECURSIVE IndexOfDot(_, _)
\* the position of the first '.' of s at or after i, 0 if there is none
IndexOfDot(s, i) ==
  IF i > Len(s) THEN 0
  ELSE IF s[i] = "." THEN i
  ELSE IndexOfDot(s, i + 1)

RECURSIVE Split(_)
\* s.split('.')
Split(s) ==
  LET d == IndexOfDot(s, 1)
  IN IF d = 0 THEN <<s>>
     ELSE <<SubSeq(s, 1, d - 1)>> \o Split(SubSeq(s, d + 1, Len(s)))

\* main.ts:102 stopping at everything but a mapping
Traversable_MappingsOnly(current) == current.t = "obj"

\* the negation of the test at main.ts:102
Traversable(current) ==
  ~(current = Null \/ current = Undefined \/ ~IsObject(current))

RECURSIVE WalkKeys(_, _, _)
\* the loop at main.ts:101-106, from the i-th key
WalkKeys(current, keys, i) ==
  IF i > Len(keys) THEN current
  ELSE IF ~Traversable(current) THEN Undefined
  ELSE WalkKeys(Get(current, keys[i]), keys, i + 1)

getValueByPath(obj, path) ==
  IF path = <<>> THEN Undefined
  ELSE WalkKeys(obj, Split(path), 1)

----------------------------------------------------------------------------
(* main.ts:116-131 *)

\* s.startsWith(p)
StartsWith(s, p) == Len(p) <= Len(s) /\ SubSeq(s, 1, Len(p)) = p

\* main.ts:125 without the dot: a plain string prefix
PathMatches_NoDot(ignoredPath, path) ==
  \/ ignoredPath = path
  \/ StartsWith(path, ignoredPath)

\* the callback given to some() at main.ts:117-130
PathMatches(ignoredPath, path) ==
  \/ ignoredPath = path
  \/ StartsWith(path, ignoredPath \o <<".">>)

\* ignoredPaths.some(...)
SomePathMatches(ignoredPaths, path) ==
  \E i \in 1..Len(ignoredPaths) : PathMatches(ignoredPaths[i], path)

shouldIgnorePath(path) == SomePathMatches(config.ignoredPaths, path)

----------------------------------------------------------------------------
(* main.ts:140-179 *)

\* !previous, main.ts:145
NoPrevious(previous) == Falsy(previous)

\* config.ignoredKeys.includes(key), main.ts:152
KeyIgnored(key) ==
  \E i \in 1..Len(config.ignoredKeys) : config.ignoredKeys[i] = key

\* main.ts:157
PropertyPath(currentPath, key) ==
  IF currentPath # <<>> THEN currentPath \o <<".">> \o key ELSE key

\* main.ts:165-166 with the test lost: no pair of values is recursed into,
\* every pair is compared through its encoding
BothObjects_Never(cur, prev) == FALSE

\* main.ts:165-166
BothObjects(cur, prev) == IsObject(cur) /\ IsObject(prev)

\* main.ts:168 without the test: an empty nested result is kept
NestedKept_Always(nestedChanges) == TRUE

\* Object.keys(nestedChanges).length > 0, main.ts:168
NestedKept(nestedChanges) == Len(OwnKeys(nestedChanges)) > 0

\* main.ts:173 with the comparison lost: every visited property is a change
DirectlyChanged_Always(cur, prev) == TRUE

\* main.ts:173
DirectlyChanged(cur, prev) == JSONstringify(cur) # JSONstringify(prev)

\* main.ts:150 looping over the keys of both messages
LoopKeys_Both(previous, current) ==
  OwnKeys(current)
    \o SelectSeq(OwnKeys(previous),
                 LAMBDA k : \A i \in 1..Len(OwnKeys(current)) :
                              OwnKeys(current)[i] # k)

\* the keys the loop at main.ts:150 visits
LoopKeys(previous, current) == OwnKeys(current)

RECURSIVE detectChanges(_, _, _)
RECURSIVE ChangesFrom(_, _, _, _, _)
\* the for-in loop at main.ts:150-176 from the i-th key of current: the
\* properties it adds to changes, in the order it adds them
ChangesFrom(previous, current, currentPath, keys, i) ==
  IF i > Len(keys) THEN <<>>
  ELSE LET key == keys[i]
           propertyPath == PropertyPath(currentPath, key)
           cur == Get(current, key)
           prev == Get(previous, key)
           rest == ChangesFrom(previous, current, currentPath, keys, i + 1)
       IN IF KeyIgnored(key) THEN rest
          ELSE IF shouldIgnorePath(propertyPath) THEN rest
          ELSE IF BothObjects(cur, prev)
               THEN LET nestedChanges == detectChanges(prev, cur, propertyPath)
                    IN IF NestedKept(nestedChanges)
                       THEN <<Prop(key, nestedChanges)>> \o rest
                       ELSE rest
          ELSE IF DirectlyChanged(cur, prev) THEN <<Prop(key, cur)>> \o rest
          ELSE rest

detectChanges(previous, current, currentPath) ==
  IF NoPrevious(previous) THEN current
  ELSE Obj(ChangesFrom(previous, current, currentPath,
                       LoopKeys(previous, current), 1))

----------------------------------------------------------------------------
(* main.ts:211-238 *)

\* what the 'message' event delivers: a text JSON.parse accepts, held as the
\* value it parses to, or a text it throws on
Payload(v) == [ok |-> TRUE, value |-> v]
Malformed == [ok |-> FALSE, value |-> Undefined]

\* main.ts:217-222 with the early return lost
Admitted_NoGate(jsonMessage) == TRUE

\* main.ts:217-222: the message is not returned on
Admitted(jsonMessage) ==
  LET path == config.messageFiltering.condition.path
      value == config.messageFiltering.condition.value
  IN ~(path # <<>> /\ ~StrictEquals(getValueByPath(jsonMessage, path), value))

\* Object.keys(changes) throws a TypeError, main.ts:228
KeysThrows(changes) == changes.t \in {"null", "undefined"}

\* main.ts:228 without the test of previousMessage
ShouldLog_NoBaselineTest(previous, changes) == Len(OwnKeys(changes)) > 0

\* main.ts:228
ShouldLog(previous, changes) ==
  previous # Null /\ previous # Undefined /\ Len(OwnKeys(changes)) > 0

\* the handler: previousMessage and the log after it has run on payload
onMessage(previous, log, payload) ==
  LET same == [previousMessage |-> previous, logged |-> log]
  IN IF ~payload.ok THEN same
     ELSE IF ~Admitted(payload.value) THEN same
     ELSE LET changes == detectChanges(previous, payload.value, <<>>)
          IN IF previous # Null /\ previous # Undefined /\ KeysThrows(changes)
             THEN same
             ELSE [previousMessage |-> payload.value,
                   logged |-> IF ShouldLog(previous, changes)
                              THEN Append(log, Encode(changes))
                              ELSE log]

----------------------------------------------------------------------------
(* the strings of the reference data (test-publisher.ts:60-102) and of the  *)
(* configuration examples of README.md                                      *)

s_temperature == <<"t", "e", "m", "p", "e", "r", "a", "t", "u", "r", "e">>
s_humidity == <<"h", "u", "m", "i", "d", "i", "t", "y">>
s_status == <<"s", "t", "a", "t", "u", "s">>
s_device == <<"d", "e", "v", "i", "c", "e">>
s_id == <<"i", "d">>
s_battery == <<"b", "a", "t", "t", "e", "r", "y">>
s_location == <<"l", "o", "c", "a", "t", "i", "o", "n">>
s_normal == <<"n", "o", "r", "m", "a", "l">>
s_warning == <<"w", "a", "r", "n", "i", "n", "g">>
s_sensor_01 == <<"s", "e", "n", "s", "o", "r", "-", "0", "1">>
s_living_room == <<"l", "i", "v", "i", "n", "g", "-", "r", "o", "o", "m">>
s_print == <<"p", "r", "i", "n", "t">>
s_command == <<"c", "o", "m", "m", "a", "n", "d">>
s_push_status == <<"p", "u", "s", "h", "_", "s", "t", "a", "t", "u", "s">>
s_other == <<"o", "t", "h", "e", "r">>
s_items == <<"i", "t", "e", "m", "s">>
s_backup == <<"b", "a", "c", "k", "u", "p">>
s_batteryLevel == <<"b", "a", "t", "t", "e", "r", "y", "L", "e", "v", "e", "l">>
s_level == <<"l", "e", "v", "e", "l">>
s_device_dot_battery == <<"d", "e", "v", "i", "c", "e", ".", "b", "a", "t", "t", "e", "r", "y">>
s_print_dot_command == <<"p", "r", "i", "n", "t", ".", "c", "o", "m", "m", "a", "n", "d">>
s_items_dot_0 == <<"i", "t", "e", "m", "s", ".", "0">>
s_items_dot_0_dot_0 == <<"i", "t", "e", "m", "s", ".", "0", ".", "0">>
s_items_dot_1 == <<"i", "t", "e", "m", "s", ".", "1">>
s_items_dot_length == <<"i", "t", "e", "m", "s", ".", "l", "e", "n", "g", "t", "h">>

\* test-publisher.ts:60-69
initialMessage ==
  Obj(<<Prop(s_temperature, Num(225)), Prop(s_humidity, Num(450)),
        Prop(s_status, Str(s_normal)),
        Prop(s_device, Obj(<<Prop(s_id, Str(s_sensor_01)),
                             Prop(s_battery, Num(980)),
                             Prop(s_location, Str(s_living_room))>>))>>)

\* test-publisher.ts:77-86
updatedMessage ==
  Obj(<<Prop(s_temperature, Num(231)), Prop(s_humidity, Num(450)),
        Prop(s_status, Str(s_normal)),
        Prop(s_device, Obj(<<Prop(s_id, Str(s_sensor_01)),
                             Prop(s_battery, Num(970)),
                             Prop(s_location, Str(s_living_room))>>))>>)

\* test-publisher.ts:93-102
finalMessage ==
  Obj(<<Prop(s_temperature, Num(231)), Prop(s_humidity, Num(470)),
        Prop(s_status, Str(s_warning)),
        Prop(s_device, Obj(<<Prop(s_id, Str(s_sensor_01)),
                             Prop(s_battery, Num(970)),
                             Prop(s_location, Str(s_living_room))>>))>>)

\* the configuration object, main.ts:14-33, as far as the handler reads it
Config(keys, paths, path, value) ==
  [ignoredKeys |-> keys, ignoredPaths |-> paths,
   messageFiltering |-> [condition |-> [path |-> path, value |-> value]]]

\* main.ts:28: no messageFiltering in config.yml
NoFilter(keys, paths) == Config(keys, paths, <<>>, Str(<<>>))

----------------------------------------------------------------------------
(* the message stream *)

MaxMsgs == 3
MaxReading == 2

\* a message the filter of README.md:306-317 lets through
StatusMessage(n) ==
  Obj2(s_print, Obj1(s_command, Str(s_push_status)), s_temperature, Num(10 * n))

\* the same with another command
OtherMessage ==
  Obj2(s_print, Obj1(s_command, Str(s_other)), s_temperature, Num(30))

\* a message whose print mapping has lost its command
EmptyPrint == Obj2(s_print, Obj(<<>>), s_temperature, Num(10))

Messages ==
  {initialMessage, updatedMessage, finalMessage, OtherMessage, EmptyPrint,
   Num(0), Null}
    \cup {StatusMessage(n) : n \in 1..MaxReading}

\* the ignoredKeys and ignoredPaths of README.md:120-135, one at a time
StreamRules ==
  {<<<<>>, <<>>>>, <<<<s_temperature, s_battery>>, <<>>>>,
   <<<<>>, <<s_device_dot_battery>>>>}

StreamConfigs ==
  {Config(r[1], r[2], f[1], f[2]) :
     r \in StreamRules,
     f \in {<<<<>>, Str(<<>>)>>, <<s_print_dot_command, Str(s_push_status)>>}}

NoCall == [fn |-> "none"]
NoResult == [done |-> FALSE]

Init ==
  /\ config \in StreamConfigs
  /\ previousMessage = Null
  /\ logged = <<>>
  /\ delivered = <<>>
  /\ input = NoCall
  /\ output = NoResult

\* the 'message' event, main.ts:211-238
Message(payload) ==
  /\ Len(delivered) < MaxMsgs
  /\ LET after == onMessage(previousMessage, logged, payload)
     IN /\ previousMessage' = after.previousMessage
        /\ logged' = after.logged
  /\ delivered' = Append(delivered, payload)
  /\ UNCHANGED <<config, input, output>>

Next ==
  \/ \E m \in Messages : Message(Payload(m))
  \/ Message(Malformed)

Spec == Init /\ [][Next]_vars

----------------------------------------------------------------------------
(* direct calls of detectChanges *)

MaxNum == 1

k_a == <<"a">>
k_b == <<"b">>
k_c == <<"c">>
k_bc == <<"b", "c">>
k_0 == <<"0">>

Nums == {Num(10 * i) : i \in 0..MaxNum}
Scalars == {Null, Bool(FALSE), Bool(TRUE), Str(<<>>), Str(<<"x">>)} \cup Nums
Arrays ==
  {Arr(<<>>)} \cup {Arr(<<n>>) : n \in Nums}
    \cup {Arr(<<n, m>>) : n \in Nums, m \in Nums}

\* mappings held under a top-level key
Inner ==
  {Obj(<<>>)}
    \cup {Obj1(k, v) : k \in {k_b, k_bc},
                       v \in Nums \cup {Str(<<"x">>)}
                               \cup {Obj1(k_c, n) : n \in Nums}}
    \cup {Obj2(k_b, v, k_bc, w) : v \in Nums, w \in Nums}
    \cup {Obj2(k_bc, w, k_b, v) : v \in Nums, w \in Nums}

\* the values given to detectChanges as previous and as current
Tops ==
  Scalars \cup Arrays \cup {Obj(<<>>)}
    \cup {Obj1(k_a, v) : v \in Scalars \cup Arrays \cup Inner}
    \cup {Obj1(k_c, v) : v \in Inner}
    \cup {Obj2(k_a, v, k_b, w) : v \in Nums, w \in Nums}
    \cup {Obj2(k_b, w, k_a, v) : v \in Nums, w \in Nums}

DiffConfigs ==
  {NoFilter(<<>>, <<>>),
   NoFilter(<<k_b>>, <<>>),
   NoFilter(<<k_bc, k_c>>, <<>>),
   NoFilter(<<>>, <<k_a \o <<".">> \o k_b>>),
   NoFilter(<<>>, <<k_c, k_a \o <<".">> \o k_b \o <<".">> \o k_c>>)}

Call(previous, current) ==
  [fn |-> "detectChanges", previous |-> previous, current |-> current]

\* spec.md section 8, the ignored-key property
KeyExample ==
  [config |-> NoFilter(<<s_temperature>>, <<>>),
   input |-> Call(Obj2(s_temperature, Num(10), s_humidity, Num(20)),
                  Obj2(s_temperature, Num(50), s_humidity, Num(90)))]

\* README.md:259-304 with device.batteryLevel added
PathExample ==
  [config |-> NoFilter(<<>>, <<s_device_dot_battery>>),
   input |-> Call(Obj2(s_device, Obj2(s_battery, Num(980),
                                      s_batteryLevel, Num(10)),
                       s_backup, Obj1(s_battery, Num(1000))),
                  Obj2(s_device, Obj2(s_battery, Num(950),
                                      s_batteryLevel, Num(20)),
                       s_backup, Obj1(s_battery, Num(900))))]

\* a change to device.battery.level
LevelExample ==
  [config |-> NoFilter(<<>>, <<s_device_dot_battery>>),
   input |-> Call(Obj1(s_device, Obj1(s_battery, Obj1(s_level, Num(10)))),
                  Obj1(s_device, Obj1(s_battery, Obj1(s_level, Num(20)))))]

\* the reference stream, message by message
ReferenceCalls ==
  {[config |-> NoFilter(<<>>, <<>>), input |-> Call(initialMessage, updatedMessage)],
   [config |-> NoFilter(<<>>, <<>>), input |-> Call(updatedMessage, finalMessage)]}

Examples == {KeyExample, PathExample, LevelExample} \cup ReferenceCalls

InitDiff ==
  /\ previousMessage = Null
  /\ logged = <<>>
  /\ delivered = <<>>
  /\ output = NoResult
  /\ \/ /\ config \in DiffConfigs
        /\ input \in {Call(p, c) : p \in Tops, c \in Tops}
     \/ \E e \in Examples : config = e.config /\ input = e.input

\* a call of detectChanges as the handler makes it, main.ts:225
CallDetectChanges ==
  /\ input.fn = "detectChanges"
  /\ ~output.done
  /\ output' = [done |-> TRUE,
                value |-> detectChanges(input.previous, input.current, <<>>)]
  /\ UNCHANGED <<config, previousMessage, logged, delivered, input>>

NextDiff == CallDetectChanges

SpecDiff == InitDiff /\ [][NextDiff]_vars

----------------------------------------------------------------------------
(* direct calls of getValueByPath and of the filter of the handler *)

ResolveItems ==
  Arrays \cup Nums \cup {Null, Str(<<"x">>)}
    \cup {Arr(<<Arr(<<n>>)>>) : n \in Nums}
    \cup {Obj1(k_0, n) : n \in Nums}

ResolveObjs ==
  {Obj1(s_items, i) : i \in ResolveItems}
    \cup Arrays \cup {Null, Str(<<"x">>), Obj(<<>>)}

ResolvePaths ==
  {<<>>, s_items, s_items_dot_0, s_items_dot_1, s_items_dot_0_dot_0,
   s_items_dot_length, k_0, k_a}

ConditionValues == Nums \cup {Null, Str(<<"x">>), Arr(<<Num(0)>>)}

InitResolve ==
  /\ previousMessage = Null
  /\ logged = <<>>
  /\ delivered = <<>>
  /\ output = NoResult
  /\ \E o \in ResolveObjs, path \in ResolvePaths, v \in ConditionValues :
       /\ config = Config(<<>>, <<>>, path, v)
       /\ input \in {[fn |-> f, obj |-> o, path |-> path] :
                       f \in {"getValueByPath", "filter"}}

\* getValueByPath(obj, path), main.ts:95-109
CallGetValueByPath ==
  /\ input.fn = "getValueByPath"
  /\ ~output.done
  /\ output' = [done |-> TRUE, value |-> getValueByPath(input.obj, input.path)]
  /\ UNCHANGED <<config, previousMessage, logged, delivered, input>>

\* the filter of the handler on a decoded message, main.ts:217-222
CallFilter ==
  /\ input.fn = "filter"
  /\ ~output.done
  /\ output' = [done |-> TRUE, admitted |-> Admitted(input.obj)]
  /\ UNCHANGED <<config, previousMessage, logged, delivered, input>>

NextResolve == CallGetValueByPath \/ CallFilter

SpecResolve == InitResolve /\ [][NextResolve]_vars

----------------------------------------------------------------------------
(* the history of a run *)

RECURSIVE Replay(_)
\* previousMessage and the log after the handler has run on each payload of
\* a stream in turn, from the state of main.ts:89
Replay(stream) ==
  IF stream = <<>> THEN [previousMessage |-> Null, logged |-> <<>>]
  ELSE LET before == Replay(SubSeq(stream, 1, Len(stream) - 1))
       IN onMessage(before.previousMessage, before.logged, stream[Len(stream)])

\* the state in which the last delivered payload arrived
Before == Replay(SubSeq(delivered, 1, Len(delivered) - 1))
Last == delivered[Len(delivered)]

RECURSIVE ValueAt(_, _)
\* the value a message holds under a sequence of keys, one own property
\* after the other; Undefined when it lacks the path
ValueAt(v, keys) ==
  IF keys = <<>> THEN v
  ELSE IF IsObject(v) /\ \E i \in 1..Len(OwnKeys(v)) : OwnKeys(v)[i] = Head(keys)
       THEN ValueAt(Get(v, Head(keys)), Tail(keys))
       ELSE Undefined

FilterPath == config.messageFiltering.condition.path
FilterValue == config.messageFiltering.condition.value

\* the message lacks the condition's path or holds a different value there
LacksOrDiffers(m) ==
  LET v == ValueAt(m, Split(FilterPath))
  IN v = Undefined \/ v # FilterValue

\* the payload is a decoded message the filter condition turns away
TurnedAway(payload) ==
  payload.ok /\ FilterPath # <<>> /\ LacksOrDiffers(payload.value)

\* the payload is a decoded message the filter condition lets through
LetThrough(payload) == payload.ok /\ ~TurnedAway(payload)

RECURSIVE Without(_)
\* a stream with the payloads the condition turns away removed
Without(stream) ==
  IF stream = <<>> THEN <<>>
  ELSE LET init == Without(SubSeq(stream, 1, Len(stream) - 1))
           p == stream[Len(stream)]
       IN IF TurnedAway(p) THEN init ELSE Append(init, p)

NoRules == config.ignoredKeys = <<>> /\ config.ignoredPaths = <<>>

\* {"temperature":23.1,"device":{"battery":97}}
firstChangeLine ==
  <<"{", "\"", "t", "e", "m", "p", "e", "r", "a", "t", "u", "r", "e",
  "\"", ":", "2", "3", ".", "1", ",", "\"", "d", "e", "v", "i", "c", "e",
  "\"", ":", "{", "\"", "b", "a", "t", "t", "e", "r", "y", "\"", ":", "9",
  "7", "}", "}">>

\* {"humidity":47,"status":"warning"}
secondChangeLine ==
  <<"{", "\"", "h", "u", "m", "i", "d", "i", "t", "y", "\"", ":", "4",
  "7", ",", "\"", "s", "t", "a", "t", "u", "s", "\"", ":", "\"", "w", "a",
  "r", "n", "i", "n", "g", "\"", "}">>


----------------------------------------------------------------------------
(* what a change set is measured against *)

KeySet(v) == {OwnKeys(v)[i] : i \in 1..Len(OwnKeys(v))}

RECURSIVE SameValue(_, _)
\* a and b are the same JSON value: mappings as sets of pairs, sequences
\* item by item
SameValue(a, b) ==
  IF a.t = "obj" /\ b.t = "obj"
  THEN /\ KeySet(a) = KeySet(b)
       /\ \A k \in KeySet(a) : SameValue(Get(a, k), Get(b, k))
  ELSE IF a.t = "arr" /\ b.t = "arr"
  THEN /\ Len(a.e) = Len(b.e)
       /\ \A i \in 1..Len(a.e) : SameValue(a.e[i], b.e[i])
  ELSE a = b

RECURSIVE Covered(_, _)
\* every field c holds, at any depth, p holds with the same value: c differs
\* from p at most by fields it no longer has
Covered(c, p) ==
  IF IsObject(c) /\ IsObject(p)
  THEN \A k \in KeySet(c) : Covered(Get(c, k), Get(p, k))
  ELSE c = p

RECURSIVE ExactlyDiffering(_, _, _)
\* ch holds exactly the keys of c whose value differs from p's, a mapping
\* under such a key reduced in the same way
ExactlyDiffering(ch, p, c) ==
  /\ ch.t = "obj"
  /\ KeySet(ch) = {k \in KeySet(c) : ~SameValue(Get(c, k), Get(p, k))}
  /\ \A k \in KeySet(ch) :
       IF IsObject(Get(c, k)) /\ IsObject(Get(p, k))
       THEN ExactlyDiffering(Get(ch, k), Get(p, k), Get(c, k))
       ELSE Get(ch, k) = Get(c, k)

RECURSIVE ReducedTo(_, _, _)
\* ch holds exactly the keys of c whose value p does not cover, a mapping
\* under such a key reduced in the same way
ReducedTo(ch, p, c) ==
  /\ ch.t = "obj"
  /\ KeySet(ch) = {k \in KeySet(c) : ~Covered(Get(c, k), Get(p, k))}
  /\ \A k \in KeySet(ch) :
       IF IsObject(Get(c, k)) /\ IsObject(Get(p, k))
       THEN ReducedTo(Get(ch, k), Get(p, k), Get(c, k))
       ELSE Get(ch, k) = Get(c, k)

\* q begins with p, item by item
IsPrefix(p, q) == Len(p) <= Len(q) /\ \A i \in 1..Len(p) : p[i] = q[i]

\* the keys of some ignored path are the first keys of the path
UnderIgnoredPath(path) ==
  \E i \in 1..Len(config.ignoredPaths) :
    IsPrefix(Split(config.ignoredPaths[i]), Split(path))

\* the key is an ignored key or its path lies under an ignored path
Suppressed(path, key) ==
  \/ \E i \in 1..Len(config.ignoredKeys) : config.ignoredKeys[i] = key
  \/ UnderIgnoredPath(IF path = <<>> THEN key ELSE path \o <<".">> \o key)

RECURSIVE Stripped(_, _)
RECURSIVE StrippedProps(_, _, _)
\* a value without the fields the ignore rules suppress, at any depth of
\* its mappings; path is where the value sits
Stripped(v, path) ==
  IF v.t = "obj" THEN Obj(StrippedProps(v.p, 1, path)) ELSE v

StrippedProps(props, i, path) ==
  IF i > Len(props) THEN <<>>
  ELSE LET k == props[i].k
           below == IF path = <<>> THEN k ELSE path \o <<".">> \o k
           rest == StrippedProps(props, i + 1, path)
       IN IF Suppressed(path, k) THEN rest
          ELSE <<Prop(k, Stripped(props[i].v, below))>> \o rest

\* no ignore rules and no filter
Plain == NoRules /\ FilterPath = <<>>

\* the payload is a mapping message arriving on a mapping baseline, under
\* no ignore rules and no filter
MappingStep(before, payload) ==
  /\ Plain /\ payload.ok
  /\ payload.value.t = "obj" /\ before.previousMessage.t = "obj"

\* the log is the one before the last payload, plus the change set if it
\* has a key
LoggedChanges(before, changes) ==
  logged = IF OwnKeys(changes) # <<>>
           THEN Append(before.logged, Encode(changes))
           ELSE before.logged

ReferenceStream ==
  <<Payload(initialMessage), Payload(updatedMessage), Payload(finalMessage)>>

\* the reference stream gives no line, then firstChangeLine, then
\* secondChangeLine
ReferenceEmissions ==
  Plain =>
    /\ delivered = SubSeq(ReferenceStream, 1, 1) => logged = <<>>
    /\ delivered = SubSeq(ReferenceStream, 1, 2) => logged = <<firstChangeLine>>
    /\ delivered = ReferenceStream
         => logged = <<firstChangeLine, secondChangeLine>>

\* C1 as stated: with no ignore rules and no filter, the change set reported
\* for a mapping message that follows a mapping message holds exactly the keys
\* whose value differs from the baseline's, nested mappings reduced likewise;
\* the reference stream logs two lines, none for its first message.
C1_ExactlyTheDifferingKeys ==
  /\ Len(delivered) > 0 =>
       LET before == Before
           changes == detectChanges(before.previousMessage, Last.value, <<>>)
       IN MappingStep(before, Last) =>
            /\ ExactlyDiffering(changes, before.previousMessage, Last.value)
            /\ LoggedChanges(before, changes)
  /\ ReferenceEmissions

\* C1 (amended): with no ignore rules and no filter, the change set reported
\* for a mapping message that follows a mapping message holds exactly the keys
\* whose value holds, at some depth, a field the baseline lacks or holds with
\* another value (a value that differs only by fields it no longer has is not
\* reported); a key that is a container in both messages is reduced in the
\* same way, any other reported key carries the current value; the reference
\* stream logs two lines, none for its first message.
C1_ChangedKeysReported ==
  /\ Len(delivered) > 0 =>
       LET before == Before
           changes == detectChanges(before.previousMessage, Last.value, <<>>)
       IN MappingStep(before, Last) =>
            /\ ReducedTo(changes, before.previousMessage, Last.value)
            /\ LoggedChanges(before, changes)
  /\ ReferenceEmissions

\* the reference stream has been delivered and its two lines logged
C1_Witness ==
  /\ Plain
  /\ delivered = ReferenceStream
  /\ logged = <<firstChangeLine, secondChangeLine>>

\* C3: the state is the one the stream without the turned-away messages
\* leads to (nothing was logged for them, the baseline did not move); a
\* message that lacks the condition's path or holds another value there is
\* not admitted; with an empty path every message is admitted.
C3_GateLeavesNoTrace ==
  /\ Replay(Without(delivered))
       = [previousMessage |-> previousMessage, logged |-> logged]
  /\ \A m \in Messages :
       (FilterPath # <<>> /\ LacksOrDiffers(m)) => ~Admitted(m)
  /\ FilterPath = <<>> => \A m \in Messages : Admitted(m)

\* between two status messages one with another command was turned away,
\* and the second was diffed against the first
C3_Witness ==
  /\ FilterPath = s_print_dot_command /\ NoRules
  /\ delivered = <<Payload(StatusMessage(1)), Payload(OtherMessage),
                   Payload(StatusMessage(2))>>
  /\ previousMessage = StatusMessage(2)
  /\ logged = <<Encode(Obj1(s_temperature, Num(20)))>>

\* the decoded messages of a stream that the condition lets through
LetThroughOf(stream) == SelectSeq(stream, LetThrough)

C7_BaselineIsLastAdmitted ==
  LET a == LetThroughOf(delivered)
  IN previousMessage = IF a = <<>> THEN Null ELSE a[Len(a)].value

----------------------------------------------------------------------------
(* claims about detectChanges called directly *)

Called == input.fn = "detectChanges" /\ output.done

\* C2: with no ignore rules, the diff of any value against itself is the
\* empty mapping.
C2_SelfDiffIsEmpty ==
  (Called /\ NoRules /\ input.previous = input.current)
    => output.value = Obj(<<>>)

RECURSIVE AllKeys(_)
\* the keys of a value's mappings, at any depth
AllKeys(v) ==
  IF v.t = "obj"
  THEN KeySet(v) \cup UNION {AllKeys(v.p[i].v) : i \in 1..Len(v.p)}
  ELSE IF v.t = "arr" THEN UNION {AllKeys(v.e[i]) : i \in 1..Len(v.e)}
  ELSE {}

IgnoredKeySet == {config.ignoredKeys[i] : i \in 1..Len(config.ignoredKeys)}

\* C4: the change set of a mapping against a mapping baseline holds no
\* ignored key at any depth.
C4_NoIgnoredKeyAtAnyDepth ==
  (Called /\ input.previous.t = "obj" /\ input.current.t = "obj")
    => AllKeys(output.value) \cap IgnoredKeySet = {}

Join(path, key) == IF path = <<>> THEN key ELSE path \o <<".">> \o key

RECURSIVE CoveredUnder(_, _, _)
\* every field c holds that no rule suppresses, p holds with the same value;
\* path is where c and p sit
CoveredUnder(c, p, path) ==
  IF IsObject(c) /\ IsObject(p)
  THEN \A k \in KeySet(c) :
         \/ Suppressed(path, k)
         \/ CoveredUnder(Get(c, k), Get(p, k), Join(path, k))
  ELSE c = p

RECURSIVE ReducedUnder(_, _, _, _)
\* ch holds exactly the keys of c that no rule suppresses and whose value p
\* does not cover, a container under such a key reduced in the same way
ReducedUnder(ch, p, c, path) ==
  /\ ch.t = "obj"
  /\ KeySet(ch) = {k \in KeySet(c) :
                     /\ ~Suppressed(path, k)
                     /\ ~CoveredUnder(Get(c, k), Get(p, k), Join(path, k))}
  /\ \A k \in KeySet(ch) :
       IF IsObject(Get(c, k)) /\ IsObject(Get(p, k))
       THEN ReducedUnder(Get(ch, k), Get(p, k), Get(c, k), Join(path, k))
       ELSE Get(ch, k) = Get(c, k)

RECURSIVE KeyPaths(_)
\* the paths of a value, each the sequence of its keys
KeyPaths(v) ==
  UNION {{<<k>>} \cup (IF IsObject(Get(v, k))
                       THEN {<<k>> \o q : q \in KeyPaths(Get(v, k))}
                       ELSE {}) : k \in KeySet(v)}

RECURSIVE Dotted(_)
\* a path in dot notation
Dotted(keys) ==
  IF Len(keys) = 1 THEN keys[1]
  ELSE keys[1] \o <<".">> \o Dotted(Tail(keys))

Reverse(q) == [i \in 1..Len(q) |-> q[Len(q) + 1 - i]]

C8_DeletionsInvisible ==
  Called => KeyPaths(output.value) \subseteq KeyPaths(input.current)

\* the baseline holds a nested key the current message lacks, next to a
\* changed one, and the diff ran
C8_Witness ==
  /\ Called
  /\ input.previous = Obj1(k_a, Obj2(k_b, Num(0), k_bc, Num(0)))
  /\ input.current = Obj1(k_a, Obj1(k_b, Num(10)))
  /\ NoRules
  /\ output.value = Obj1(k_a, Obj1(k_b, Num(10)))

RECURSIVE NoEmptyLeak(_, _, _, _)
\* under every key that holds a container in both p and c, ch has the key
\* exactly when some field inside is neither suppressed nor covered by p,
\* and then holds a non-empty mapping there
NoEmptyLeak(ch, p, c, path) ==
  \A k \in KeySet(c) :
    (IsObject(Get(c, k)) /\ IsObject(Get(p, k))) =>
      IF Suppressed(path, k)
           \/ CoveredUnder(Get(c, k), Get(p, k), Join(path, k))
      THEN k \notin KeySet(ch)
      ELSE /\ k \in KeySet(ch)
           /\ Get(ch, k).t = "obj"
           /\ KeySet(Get(ch, k)) # {}
           /\ NoEmptyLeak(Get(ch, k), Get(p, k), Get(c, k), Join(path, k))

\* C9: a key under which baseline and current both hold an object is in the
\* change set only with a non-empty nested result: when every change inside
\* is suppressed, or nothing inside changed, the key is absent.
C9_NoEmptyNested ==
  (Called /\ ~Falsy(input.previous))
    => NoEmptyLeak(output.value, input.previous, input.current, <<>>)

\* a.b changed, b is an ignored key, and the change set is empty
C9_Witness ==
  /\ Called
  /\ config.ignoredKeys = <<k_b>>
  /\ input.previous = Obj1(k_a, Obj1(k_b, Num(0)))
  /\ input.current = Obj1(k_a, Obj1(k_b, Num(10)))
  /\ output.value = Obj(<<>>)

----------------------------------------------------------------------------
(* claims about getValueByPath and the filter *)

RECURSIVE ResolveMappings(_, _)
\* the value under a sequence of keys when only mappings are indexed
ResolveMappings(v, keys) ==
  IF keys = <<>> THEN v
  ELSE IF v.t = "obj" /\ Head(keys) \in KeySet(v)
       THEN ResolveMappings(Get(v, Head(keys)), Tail(keys))
       ELSE Undefined

\* one step into a mapping by key or into a sequence by the decimal index
\* of an element or by length; absent from anything else
Step(v, key) ==
  IF v.t = "obj"
  THEN LET hits == {i \in 1..Len(v.p) : v.p[i].k = key}
       IN IF hits = {} THEN Undefined ELSE v.p[CHOOSE i \in hits : TRUE].v
  ELSE IF v.t = "arr"
  THEN LET hits == {i \in 1..Len(v.e) : Digits(i - 1) = key}
       IN IF hits # {} THEN v.e[CHOOSE i \in hits : TRUE]
          ELSE IF key = LengthKey THEN Num(10 * Len(v.e))
          ELSE Undefined
  ELSE Undefined

RECURSIVE ResolveContainers(_, _)
\* the value under a sequence of keys when mappings and sequences are indexed
ResolveContainers(v, keys) ==
  IF keys = <<>> THEN v
  ELSE ResolveContainers(Step(v, Head(keys)), Tail(keys))

IsScalar(v) == v.t \in {"null", "bool", "num", "str"}

\* C10 as stated: the resolver returns absent for an empty path and indexes
\* mappings only, so a sequence ends the resolution with absent; a filter on
\* items.0 admits no message whose items is a sequence.
C10_NeverTraversesSequences ==
  /\ (input.fn = "getValueByPath" /\ output.done) =>
       output.value = IF input.path = <<>> THEN Undefined
                      ELSE ResolveMappings(input.obj, Split(input.path))
  /\ ( /\ input.fn = "filter" /\ output.done
       /\ input.path = s_items_dot_0
       /\ Get(input.obj, s_items).t = "arr" ) => ~output.admitted

\* C10 (amended): the resolver returns absent for an empty path; a scalar or
\* null reached before the last segment ends the resolution with absent; a
\* mapping is indexed by key and a sequence by the decimal index of an
\* element (or by length). A filter on items.0 admits a message whose items
\* is a sequence exactly when its first element is a scalar strictly equal to
\* the condition's value.
C10_TraversesSequencesByIndex ==
  /\ (input.fn = "getValueByPath" /\ output.done) =>
       output.value = IF input.path = <<>> THEN Undefined
                      ELSE ResolveContainers(input.obj, Split(input.path))
  /\ (input.fn = "filter" /\ output.done) =>
       LET found == ResolveContainers(input.obj, Split(input.path))
       IN output.admitted <=> \/ input.path = <<>>
                              \/ IsScalar(found) /\ found = FilterValue
  /\ ( /\ input.fn = "filter" /\ output.done
       /\ input.path = s_items_dot_0
       /\ Get(input.obj, s_items).t = "arr" ) =>
       (output.admitted <=> /\ Len(Get(input.obj, s_items).e) > 0
                            /\ IsScalar(Get(input.obj, s_items).e[1])
                            /\ Get(input.obj, s_items).e[1] = FilterValue)

\* a filter on items.0 admitted a message whose items is a sequence
C10_Witness ==
  /\ input.fn = "filter" /\ output.done
  /\ input.path = s_items_dot_0
  /\ input.obj = Obj1(s_items, Arr(<<Num(10)>>))
  /\ FilterValue = Num(10)
  /\ output.admitted

----------------------------------------------------------------------------
(* key order inside a mapping *)

\* a and b are mappings with the same key/value pairs at every depth, written
\* in a different order
Reordered(a, b) ==
  /\ a.t = "obj" /\ b.t = "obj"
  /\ SameValue(a, b)
  /\ a # b

\* C11 as stated: a key that holds a mapping in the baseline and the same
\* mapping with its keys in another order in the current message is reported
\* as changed.
C11_ReorderedMappingReported ==
  (Called /\ NoRules
     /\ input.previous.t = "obj" /\ input.current.t = "obj")
    => \A k \in KeySet(input.current) \cap KeySet(input.previous) :
         Reordered(Get(input.previous, k), Get(input.current, k))
           => k \in KeySet(output.value)

\* C11: the encodings of a mapping and of its reordered counterpart differ,
\* yet a key that holds the one in the baseline and the other in the current
\* message is not reported: two mappings are compared key by key, not
\* through their encodings.
C11_ReorderedMappingNotReported ==
  (Called /\ input.previous.t = "obj" /\ input.current.t = "obj")
    => \A k \in KeySet(input.current) \cap KeySet(input.previous) :
         LET p == Get(input.previous, k)
             c == Get(input.current, k)
         IN Reordered(p, c)
              => /\ JSONstringify(c) # JSONstringify(p)
                 /\ k \notin KeySet(output.value)

\* {a: {b: 0, bc: 1}} against {a: {bc: 1, b: 0}} with no ignore rules: the
\* change set is empty
C11_Witness ==
  /\ Called /\ NoRules
  /\ input.previous = Obj1(k_a, Obj2(k_b, Num(0), k_bc, Num(10)))
  /\ input.current = Obj1(k_a, Obj2(k_bc, Num(10), k_b, Num(0)))
  /\ output.value = Obj(<<>>)

====
